---------------------------- MODULE Spec2Model ----------------------------
(***************************************************************************)
(* Campus Voice: the complaint routing and workflow engine of              *)
(* backend/server.py and backend/utils/conflict_detection.py.              *)
(*                                                                         *)
(* The state is the complaints table (backend/models.py, Complaint).  The  *)
(* users table is a fixed population, since no handler modelled here       *)
(* writes it.  Every request handler is one action: it loads the row into  *)
(* a session object, mutates the object as the code does, and the row is   *)
(* written back only when the handler reaches session.commit(); a handler  *)
(* that returns early leaves the row as it was (the request's session is   *)
(* closed, which rolls its transaction back).                              *)
(*                                                                         *)
(* Strings that the code inspects character by character (names, titles,   *)
(* descriptions) are sequences of one-character strings.  Timestamps are   *)
(* abstracted to the single value Now.                                     *)
(***************************************************************************)
EXTENDS Naturals, Sequences, FiniteSets, TLC

None == "None"

(***************************************************************************)
(* Bounds of the model.                                                    *)
(***************************************************************************)
MaxComplaints == 1

\* the complaints of the load-balancing specification SpecLoad
MaxLoadComplaints == 2

(***************************************************************************)
(* Python string primitives used by conflict_detection.py.                 *)
(***************************************************************************)
UpperChars == <<"A","B","C","D","E","F","G","H","I","J","K","L","M",
                "N","O","P","Q","R","S","T","U","V","W","X","Y","Z">>
LowerChars == <<"a","b","c","d","e","f","g","h","i","j","k","l","m",
                "n","o","p","q","r","s","t","u","v","w","x","y","z">>
Digits == {"0","1","2","3","4","5","6","7","8","9"}

Range(s) == {s[i] : i \in DOMAIN s}

UpperSet == Range(UpperChars)
WordChars == Range(UpperChars) \cup Range(LowerChars) \cup Digits \cup {"_"}

\* str.lower() on one character
LowerChar(c) ==
    IF c \in UpperSet
    THEN LowerChars[CHOOSE i \in DOMAIN UpperChars : UpperChars[i] = c]
    ELSE c

\* str.lower()
Lower(s) == [i \in DOMAIN s |-> LowerChar(s[i])]

IsSpace(c) == c = " "

\* a character of the regular expression class \w
IsWordChar(c) == c \in WordChars

\* str.strip()
Strip(s) ==
    LET nonsp == {i \in DOMAIN s : ~IsSpace(s[i])}
    IN  IF nonsp = {} THEN <<>>
        ELSE LET lo == CHOOSE i \in nonsp : \A j \in nonsp : i <= j
                 hi == CHOOSE i \in nonsp : \A j \in nonsp : j <= i
             IN  SubSeq(s, lo, hi)

\* str.split(): the set of [lo, hi] index pairs of the whitespace-separated tokens
TokenSpans(s) ==
    {<<lo, hi>> \in (DOMAIN s) \X (DOMAIN s) :
        /\ lo <= hi
        /\ \A k \in lo..hi : ~IsSpace(s[k])
        /\ (lo = 1 \/ IsSpace(s[lo - 1]))
        /\ (hi = Len(s) \/ IsSpace(s[hi + 1]))}

Split(s) == {SubSeq(s, sp[1], sp[2]) : sp \in TokenSpans(s)}

\* pat occurs in text at 1-based position i
MatchAt(pat, text, i) ==
    /\ i >= 1
    /\ i + Len(pat) - 1 <= Len(text)
    /\ \A k \in 1..Len(pat) : text[i + k - 1] = pat[k]

\* Python's  pat in text
Contains(text, pat) == \E i \in 1..(Len(text) + 1) : MatchAt(pat, text, i)

\* the regular expression assertion \b between text[p] and text[p+1], p in 0..Len
WordAt(text, p) == p >= 1 /\ p <= Len(text) /\ IsWordChar(text[p])
Boundary(text, p) == WordAt(text, p) # WordAt(text, p + 1)

\* re.search(r'\b' + re.escape(part) + r'\b', text)
WholeWordSearch(part, text) ==
    \E i \in 1..(Len(text) + 1) :
        /\ MatchAt(part, text, i)
        /\ Boundary(text, i - 1)
        /\ Boundary(text, i + Len(part) - 1)

\* f"{a} {b}"
Join(a, b) == a \o <<" ">> \o b

normalize_name(name) == Strip(Lower(name))

\* is_staff_mentioned_in_complaint without the test of the full name: whole-word
\* matches of the name's tokens alone
is_staff_mentioned_in_complaint_TokensOnly(staff_name, complaint_title, complaint_description) ==
    IF staff_name = <<>> THEN FALSE
    ELSE LET full_text == Lower(Join(complaint_title, complaint_description))
             name_parts == Split(normalize_name(staff_name))
         IN  \E part \in name_parts :
                 Len(part) > 2 /\ WholeWordSearch(part, full_text)

is_staff_mentioned_in_complaint(staff_name, complaint_title, complaint_description) ==
    IF staff_name = <<>> THEN FALSE
    ELSE LET full_text == Lower(Join(complaint_title, complaint_description))
             staff_name_lower == normalize_name(staff_name)
             name_parts == Split(staff_name_lower)
         IN  \/ Contains(full_text, staff_name_lower)
             \/ \E part \in name_parts :
                    Len(part) > 2 /\ WholeWordSearch(part, full_text)


(***************************************************************************)
(* Enumerations and routing configuration of server.py.                    *)
(***************************************************************************)
STUDENT   == "student"
ADMIN     == "admin"
HOD       == "hod"
PRINCIPAL == "principal"
STAFF     == "staff"

SUBMITTED   == "submitted"
REVIEWED    == "reviewed"
IN_PROGRESS == "in_progress"
RESOLVED    == "resolved"
REJECTED    == "rejected"

ComplaintStatus == {SUBMITTED, REVIEWED, IN_PROGRESS, RESOLVED, REJECTED}

ASSISTANT_PROFESSOR == "Assistant Professor"

HOD_CATEGORIES == {"Academic Issues", "Staff Behavior"}

CategoryKeys ==
    {"Sports", "Library", "Discipline", "Exam Cell", "Accounts/Fees", "Transport",
     "Scholarship", "Placement/Training", "Hostel", "Infrastructure", "Lab", "Office"}

CATEGORY_TO_STAFF_ROLE ==
    [k \in CategoryKeys |->
        CASE k = "Sports"             -> "Physical Director"
          [] k = "Library"            -> "Librarian"
          [] k = "Discipline"         -> "Discipline Coordinator"
          [] k = "Exam Cell"          -> "Exam Cell Coordinator"
          [] k = "Accounts/Fees"      -> "Accountant"
          [] k = "Transport"          -> "Transport Manager"
          [] k = "Scholarship"        -> "Scholarship Coordinator"
          [] k = "Placement/Training" -> "Placement & Training Coordinator"
          [] k = "Hostel"             -> "Warden"
          [] k = "Infrastructure"     -> "Infrastructure Coordinator"
          [] k = "Lab"                -> "Lab Assistant"
          [] k = "Office"             -> "Clerk"]

\* dict.get(key): None for a missing key
DictGet(d, k) == IF k \in DOMAIN d THEN d[k] ELSE None

(***************************************************************************)
(* The users table (models.py, User): a fixed population with every role,  *)
(* two departments, and names that do and do not occur in the texts below. *)
(***************************************************************************)
UserIds == {"stu", "hod", "hodE", "ap", "apE", "lab", "lab2", "adm", "pri"}

Users ==
    [u \in UserIds |->
        CASE u = "stu"  -> [id |-> u, name |-> <<"S","a","m">>, role |-> STUDENT,
                            department |-> "CS", staff_role |-> None]
          [] u = "hod"  -> [id |-> u, name |-> <<"D","r","."," ","R","a","o">>, role |-> HOD,
                            department |-> "CS", staff_role |-> None]
          [] u = "hodE" -> [id |-> u, name |-> <<"K","i","m">>, role |-> HOD,
                            department |-> "EE", staff_role |-> None]
          [] u = "ap"   -> [id |-> u, name |-> <<"A","n","n"," ","L","e","e">>, role |-> STAFF,
                            department |-> "CS", staff_role |-> ASSISTANT_PROFESSOR]
          [] u = "apE"  -> [id |-> u, name |-> <<"B","o">>, role |-> STAFF,
                            department |-> "EE", staff_role |-> ASSISTANT_PROFESSOR]
          [] u = "lab"  -> [id |-> u, name |-> <<"R","o","y">>, role |-> STAFF,
                            department |-> "CS", staff_role |-> "Lab Assistant"]
          [] u = "lab2" -> [id |-> u, name |-> <<"Z","e","d">>, role |-> STAFF,
                            department |-> "EE", staff_role |-> "Lab Assistant"]
          [] u = "adm"  -> [id |-> u, name |-> <<"E","v","e">>, role |-> ADMIN,
                            department |-> None, staff_role |-> None]
          [] u = "pri"  -> [id |-> u, name |-> <<"R","a","j">>, role |-> PRINCIPAL,
                            department |-> None, staff_role |-> None]]

\* an assigned_to value of a request that is no user's id
GhostId == "ghost"

(***************************************************************************)
(* Request inputs.                                                         *)
(***************************************************************************)
\* (title, description) pairs a complaint is submitted with
TextNames ==
    <<<<"R","a","o"," ","r","u","d","e">>,
      <<"l","e","e"," ","a","n","d"," ","R","O","Y"," ","l","a","t","e">>>>
TextPlain ==
    <<<<"w","i","f","i">>, <<"s","l","o","w">>>>
Texts == {TextNames, TextPlain}

\* categories a complaint is submitted with (given by the client or by the classifier)
Categories == {"Academic Issues", "Lab", "Library", "Other"}

\* status strings of a request: the five of ComplaintStatus and one that is none of them
StatusInputs == ComplaintStatus \cup {"closed"}

Now == "now"

\* is_staff_mentioned_in_complaint, tabulated once for the names and texts of the
\* model: the (name, title, description) triples for which it is true
MentionTable ==
    {tr \in {<<Users[u].name, t[1], t[2]>> : u \in UserIds, t \in Texts} :
        is_staff_mentioned_in_complaint(tr[1], tr[2], tr[3])}

IsMentioned(name, title, description) ==
    IF \E u \in UserIds : Users[u].name = name /\ <<title, description>> \in Texts
    THEN <<name, title, description>> \in MentionTable
    ELSE is_staff_mentioned_in_complaint(name, title, description)

(***************************************************************************)
(* State: the complaints table, the id the next created complaint gets     *)
(* (ids are fresh and never reused), the response to the last request, and *)
(* the requests in flight: the database sessions of the handlers that have *)
(* loaded a row and not yet reached session.commit().  startup is the      *)
(* startup handler of the application: where it stands (pc), the number of *)
(* the connection attempt, the seconds it has slept after each failed      *)
(* attempt, the migration checks that logged a warning, and the columns    *)
(* the two migration checks look for in the database.                      *)
(***************************************************************************)
VARIABLES complaints, nextId, last, sessions, startup

vars == <<complaints, nextId, last, sessions, startup>>

ComplaintIds == 1..MaxComplaints

\* the response to a request; fields are the optional fields the request
\* carried, data is the payload of the response (None when it is not modelled)
Response(op, cid, fields, out) ==
    [op |-> op, cid |-> cid, fields |-> fields,
     result |-> out.result, code |-> out.code, message |-> out.message,
     data |-> None]

\* the startup handler after a first attempt that succeeded on a database
\* that has both columns: requests are served after startup has returned
Started ==
    [pc |-> "returned", attempt |-> 1, waits |-> <<>>, warnings |-> {},
     columns |-> {"staff_role", "student_department"}]

Init ==
    /\ complaints = <<>>
    /\ nextId = 1
    /\ last = [op |-> "none", cid |-> 0, fields |-> {},
               result |-> None, code |-> 0, message |-> None, data |-> None]
    /\ sessions = <<>>
    /\ startup = Started

\* the names of the JSON columns of Complaint (models.py)
JsonColumns == {"timeline", "responses", "supported_by"}

\* session.get(Complaint, id): the session object of a row.  rebound is the set
\* of JSON attributes that the handler has set to a list other than the loaded one.
Load(row) == [loaded |-> TRUE, row |-> row, rebound |-> {}]

\* the handler returned before it loaded the row
NoObject == [loaded |-> FALSE, row |-> <<>>, rebound |-> {}]

\* AppendJson, as it would be if the attribute were set to a new list that
\* holds the entry alone
AppendJson_Overwrite(obj, col, entry) ==
    [loaded |-> obj.loaded,
     row |-> [obj.row EXCEPT ![col] = <<entry>>],
     rebound |-> obj.rebound \cup {col}]

\* x = obj.col or []; x.append(entry); obj.col = x
\* A non-empty loaded list is appended to in place and stays the same object;
\* an empty one is replaced by a new list.
AppendJson(obj, col, entry) ==
    [loaded |-> obj.loaded,
     row |-> [obj.row EXCEPT ![col] = Append(@, entry)],
     rebound |-> IF obj.row[col] = <<>> THEN obj.rebound \cup {col} ELSE obj.rebound]

\* obj.col.append(entry), with no assignment to the attribute
AppendInPlace(obj, col, entry) ==
    [obj EXCEPT !.row[col] = Append(@, entry)]

\* obj.col = value, for a JSON column and a list built by the handler
SetJson(obj, col, value) ==
    [loaded |-> obj.loaded,
     row |-> [obj.row EXCEPT ![col] = value],
     rebound |-> obj.rebound \cup {col}]

\* obj.attr = value, for a scalar column
SetAttr(obj, attr, value) == [obj EXCEPT !.row[attr] = value]

\* session.commit() of a loaded object: the UPDATE carries every scalar column,
\* and a JSON column (a plain Column(JSON), with no mutation tracking) only when
\* the attribute holds another object than the loaded one and differs from it.
Flush(stored, obj) ==
    [f \in DOMAIN stored |->
        IF f \in JsonColumns
        THEN IF f \in obj.rebound /\ obj.row[f] # stored[f] THEN obj.row[f] ELSE stored[f]
        ELSE obj.row[f]]

(***************************************************************************)
(* Responses.  A handler's outcome is the response it returns (kind, HTTP  *)
(* code and message), whether it reached session.commit(), and the session *)
(* object it held at that point.                                           *)
(***************************************************************************)
Rejections ==
    {"PermissionDenied", "NotFound", "ValidationFailed", "ConflictOfInterest", "InternalError"}

Reject(result, code, message, obj) ==
    [result |-> result, code |-> code, message |-> message,
     commit |-> FALSE, obj |-> obj, escalate_to |-> None]

Commit(code, message, obj) ==
    [result |-> "Ok", code |-> code, message |-> message,
     commit |-> TRUE, obj |-> obj, escalate_to |-> None]


\* Stored, as it would be if a handler's early return still wrote the session
\* object back (no rollback of the uncommitted changes)
Stored_FlushOnReturn(cid, out) ==
    IF out.obj.loaded THEN Flush(complaints[cid], out.obj) ELSE complaints[cid]

\* the row a handler's outcome leaves in the table
Stored(cid, out) ==
    IF out.commit THEN Flush(complaints[cid], out.obj) ELSE complaints[cid]

(***************************************************************************)
(* auto_assign_complaint: the set of (id, name) pairs it can return, with  *)
(* NoHandler for (None, None).  The queries have no ORDER BY, so the rows  *)
(* come in any order: first() can be any HOD of the department, and the    *)
(* loop keeps the first staff of the least count, which can be any of the  *)
(* staff of the least count.                                               *)
(***************************************************************************)
NoHandler == [id |-> None, name |-> None]

\* the count query of the load-balancing loop
ActiveCount(staff_id) ==
    Cardinality({c \in DOMAIN complaints :
        /\ complaints[c].assigned_to = staff_id
        /\ complaints[c].status \notin {RESOLVED, REJECTED}})


\* auto_assign_complaint without the department filter of the HOD query
auto_assign_complaint_AnyHod(category, student_department) ==
    IF category = None THEN {NoHandler}
    ELSE IF category \in HOD_CATEGORIES THEN
        IF student_department = None THEN {NoHandler}
        ELSE LET hods == {u \in UserIds : Users[u].role = HOD}
             IN  IF hods = {} THEN {NoHandler}
                 ELSE {[id |-> h, name |-> Users[h].name] : h \in hods}
    ELSE {NoHandler}

\* auto_assign_complaint without the counts: any staff of the mapped role
auto_assign_complaint_AnyStaff(category, student_department) ==
    IF category = None THEN {NoHandler}
    ELSE IF category \in HOD_CATEGORIES THEN
        IF student_department = None THEN {NoHandler}
        ELSE LET hods == {u \in UserIds : Users[u].role = HOD
                                          /\ Users[u].department = student_department}
             IN  IF hods = {} THEN {NoHandler}
                 ELSE {[id |-> h, name |-> Users[h].name] : h \in hods}
    ELSE LET target_role == DictGet(CATEGORY_TO_STAFF_ROLE, category)
         IN  IF target_role = None THEN {NoHandler}
             ELSE LET staff_list == {u \in UserIds : Users[u].role = STAFF
                                                     /\ Users[u].staff_role = target_role}
                  IN  IF staff_list = {} THEN {NoHandler}
                      ELSE {[id |-> s, name |-> Users[s].name] : s \in staff_list}

auto_assign_complaint(category, student_department) ==
    IF category = None THEN {NoHandler}
    ELSE IF category \in HOD_CATEGORIES THEN
        IF student_department = None THEN {NoHandler}
        ELSE LET hods == {u \in UserIds : Users[u].role = HOD
                                          /\ Users[u].department = student_department}
             IN  IF hods = {} THEN {NoHandler}
                 ELSE {[id |-> h, name |-> Users[h].name] : h \in hods}
    ELSE LET target_role == DictGet(CATEGORY_TO_STAFF_ROLE, category)
         IN  IF target_role = None THEN {NoHandler}
             ELSE LET staff_list == {u \in UserIds : Users[u].role = STAFF
                                                     /\ Users[u].staff_role = target_role}
                      best == {s \in staff_list :
                                  \A t \in staff_list : ActiveCount(s) <= ActiveCount(t)}
                  IN  IF staff_list = {} THEN {NoHandler}
                      ELSE {[id |-> s, name |-> Users[s].name] : s \in best}

\* check_duplicate_complaint: some complaint of the user whose title and
\* description each contain, or are contained in, the new ones
check_duplicate_complaint(title, description, user_id) ==
    \E c \in DOMAIN complaints :
        /\ complaints[c].student_id = user_id
        /\ LET t1 == Lower(title)
               t2 == Lower(complaints[c].title)
               d1 == Lower(description)
               d2 == Lower(complaints[c].description)
           IN  /\ complaints[c].title # <<>> /\ (Contains(t2, t1) \/ Contains(t1, t2))
               /\ complaints[c].description # <<>> /\ (Contains(d2, d1) \/ Contains(d1, d2))

\* the Complaint object create_complaint builds before auto-assignment
NewComplaint(user, text, category) ==
    [title |-> text[1], description |-> text[2],
     status |-> SUBMITTED, category |-> category,
     student_id |-> user.id, student_department |-> user.department,
     support_count |-> 0, supported_by |-> <<>>, responses |-> <<>>,
     timeline |-> <<[status |-> SUBMITTED, note |-> <<"Complaint submitted">>]>>,
     assigned_to |-> None, assigned_to_name |-> None, assigned_at |-> None]

\* WithAutoAssignment without the timeline entry of the assignment
WithAutoAssignment_NoEntry(c, handler) ==
    IF handler.id # None
    THEN [c EXCEPT !.assigned_to = handler.id,
                   !.assigned_to_name = handler.name,
                   !.assigned_at = Now]
    ELSE c

\* the assignment create_complaint writes for the pair auto_assign_complaint returned
WithAutoAssignment(c, handler) ==
    IF handler.id # None
    THEN [c EXCEPT !.assigned_to = handler.id,
                   !.assigned_to_name = handler.name,
                   !.assigned_at = Now,
                   !.timeline = Append(@, [status |-> "auto_assigned",
                                           note |-> <<"Auto-assigned to ", handler.name>>])]
    ELSE c

\* create_complaint, as it would be if a request without a handler stored no row
create_complaint_RequireHandler(actor, text, category) ==
    {WithAutoAssignment(NewComplaint(Users[actor], text, category), handler) :
        handler \in auto_assign_complaint(category, Users[actor].department) \ {NoHandler}}

\* the rows create_complaint can insert for a request that is no duplicate
create_complaint(actor, text, category) ==
    {WithAutoAssignment(NewComplaint(Users[actor], text, category), handler) :
        handler \in auto_assign_complaint(category, Users[actor].department)}

\* POST /complaints, while the table has room for the id of a new row
CreateUpTo(bound, actor, text, category) ==
    /\ nextId <= bound
    /\ IF check_duplicate_complaint(text[1], text[2], actor)
       THEN /\ UNCHANGED <<complaints, nextId>>
            /\ last' = [op |-> "create", cid |-> 0, fields |-> {},
                        result |-> "ValidationFailed", code |-> 400,
                        message |-> "similar complaint already exists",
                        data |-> None]
       ELSE \E row \in create_complaint(actor, text, category) :
            /\ complaints' = (nextId :> row) @@ complaints
            /\ nextId' = nextId + 1
            /\ last' = [op |-> "create", cid |-> nextId, fields |-> {},
                        result |-> "Ok", code |-> 201, message |-> "created",
                        data |-> None]
    /\ UNCHANGED <<sessions, startup>>

CreateComplaint(actor, text, category) ==
    CreateUpTo(MaxComplaints, actor, text, category)

(***************************************************************************)
(* PUT /complaints/{id}  (update_complaint).  req has the three optional   *)
(* fields of ComplaintUpdate, None when absent.                            *)
(***************************************************************************)
\* utils/rbac.py: the table of allowed transitions and its lookup.  server.py
\* imports is_valid_transition and never calls it.
VALID_TRANSITIONS ==
    [s \in {"Pending", "Accepted", "In-Process"} |->
        CASE s = "Pending" -> {"Accepted", "Rejected"}
          [] s = "Accepted" -> {"In-Process"}
          [] s = "In-Process" -> {"Completed"}]

is_valid_transition(current, new) ==
    current \in DOMAIN VALID_TRANSITIONS /\ new \in VALID_TRANSITIONS[current]

\* ApplyStatus, as it would be if the block consulted is_valid_transition and
\* left the status alone for a transition that is not in the table
ApplyStatus_ValidTransitions(user, obj, req) ==
    IF is_valid_transition(obj.row.status, req.status)
    THEN AppendJson(SetAttr(obj, "status", req.status), "timeline",
                    [status |-> req.status,
                     note |-> <<"Status updated to ", req.status>>,
                     updated_by |-> user.name])
    ELSE obj

\* the block under  if update_data.status
ApplyStatus(user, obj, req) ==
    AppendJson(SetAttr(obj, "status", req.status), "timeline",
               [status |-> req.status,
                note |-> <<"Status updated to ", req.status>>,
                updated_by |-> user.name])

\* the block under  if update_data.response_text
ApplyResponse(user, obj, req) ==
    AppendJson(obj, "responses",
               [text |-> req.response_text, responder_name |-> user.name,
                responder_role |-> user.role])


\* AssignGuard without the conflict-of-interest check
AssignGuard_NoConflictCheck(user, c, req) ==
    IF c.category \in HOD_CATEGORIES /\ user.role # HOD
        THEN [result |-> "PermissionDenied", code |-> 403,
              message |-> "only the HOD can reassign"]
    ELSE IF c.category \in HOD_CATEGORIES /\ user.department # c.student_department
        THEN [result |-> "PermissionDenied", code |-> 403,
              message |-> "only complaints from your own department"]
    ELSE IF req.assigned_to \notin UserIds
        THEN [result |-> "NotFound", code |-> 404, message |-> "staff member not found"]
    ELSE LET assigned_user == Users[req.assigned_to]
         IN  IF c.category \in HOD_CATEGORIES
                    /\ assigned_user.department # c.student_department
                 THEN [result |-> "ValidationFailed", code |-> 400,
                       message |-> "not in the department"]
             ELSE IF c.category \in HOD_CATEGORIES /\ user.role = HOD
                    /\ assigned_user.staff_role # ASSISTANT_PROFESSOR
                 THEN [result |-> "ValidationFailed", code |-> 400,
                       message |-> "HOD can only assign to Assistant Professors"]
             ELSE [result |-> "Ok", code |-> 200, message |-> "updated"]

\* AssignGuard without the check of the acting HOD's department
AssignGuard_AnyHod(user, c, req) ==
    IF c.category \in HOD_CATEGORIES /\ user.role # HOD
        THEN [result |-> "PermissionDenied", code |-> 403,
              message |-> "only the HOD can reassign"]
    ELSE IF req.assigned_to \notin UserIds
        THEN [result |-> "NotFound", code |-> 404, message |-> "staff member not found"]
    ELSE LET assigned_user == Users[req.assigned_to]
         IN  IF c.category \in HOD_CATEGORIES
                    /\ assigned_user.department # c.student_department
                 THEN [result |-> "ValidationFailed", code |-> 400,
                       message |-> "not in the department"]
             ELSE IF c.category \in HOD_CATEGORIES /\ user.role = HOD
                    /\ assigned_user.staff_role # ASSISTANT_PROFESSOR
                 THEN [result |-> "ValidationFailed", code |-> 400,
                       message |-> "HOD can only assign to Assistant Professors"]
             ELSE IF IsMentioned(assigned_user.name, c.title, c.description)
                 THEN [result |-> "ConflictOfInterest", code |-> 400,
                       message |-> "mentioned in the complaint"]
             ELSE [result |-> "Ok", code |-> 200, message |-> "updated"]

\* AssignGuard without the Assistant Professor check on an HOD's target
AssignGuard_AnyStaffRole(user, c, req) ==
    IF c.category \in HOD_CATEGORIES /\ user.role # HOD
        THEN [result |-> "PermissionDenied", code |-> 403,
              message |-> "only the HOD can reassign"]
    ELSE IF c.category \in HOD_CATEGORIES /\ user.department # c.student_department
        THEN [result |-> "PermissionDenied", code |-> 403,
              message |-> "only complaints from your own department"]
    ELSE IF req.assigned_to \notin UserIds
        THEN [result |-> "NotFound", code |-> 404, message |-> "staff member not found"]
    ELSE LET assigned_user == Users[req.assigned_to]
         IN  IF c.category \in HOD_CATEGORIES
                    /\ assigned_user.department # c.student_department
                 THEN [result |-> "ValidationFailed", code |-> 400,
                       message |-> "not in the department"]
             ELSE IF IsMentioned(assigned_user.name, c.title, c.description)
                 THEN [result |-> "ConflictOfInterest", code |-> 400,
                       message |-> "mentioned in the complaint"]
             ELSE [result |-> "Ok", code |-> 200, message |-> "updated"]

\* the guards of the block under  if update_data.assigned_to : the rejection
\* the block returns, or "Ok" when it goes on to assign
AssignGuard(user, c, req) ==
    IF c.category \in HOD_CATEGORIES /\ user.role # HOD
        THEN [result |-> "PermissionDenied", code |-> 403,
              message |-> "only the HOD can reassign"]
    ELSE IF c.category \in HOD_CATEGORIES /\ user.department # c.student_department
        THEN [result |-> "PermissionDenied", code |-> 403,
              message |-> "only complaints from your own department"]
    ELSE IF req.assigned_to \notin UserIds
        THEN [result |-> "NotFound", code |-> 404, message |-> "staff member not found"]
    ELSE LET assigned_user == Users[req.assigned_to]
         IN  IF c.category \in HOD_CATEGORIES
                    /\ assigned_user.department # c.student_department
                 THEN [result |-> "ValidationFailed", code |-> 400,
                       message |-> "not in the department"]
             ELSE IF c.category \in HOD_CATEGORIES /\ user.role = HOD
                    /\ assigned_user.staff_role # ASSISTANT_PROFESSOR
                 THEN [result |-> "ValidationFailed", code |-> 400,
                       message |-> "HOD can only assign to Assistant Professors"]
             ELSE IF IsMentioned(assigned_user.name,
                                                     c.title, c.description)
                 THEN [result |-> "ConflictOfInterest", code |-> 400,
                       message |-> "mentioned in the complaint"]
             ELSE [result |-> "Ok", code |-> 200, message |-> "updated"]


\* ApplyAssign without the final  status = IN_PROGRESS
ApplyAssign_KeepStatus(user, obj, req) ==
    LET assigned_user == Users[req.assigned_to]
        o1 == SetAttr(SetAttr(SetAttr(obj, "assigned_to", req.assigned_to),
                              "assigned_to_name", assigned_user.name),
                      "assigned_at", Now)
    IN  AppendJson(o1, "timeline",
            [action |-> <<"Reassigned to ", assigned_user.name>>, by |-> user.name])

\* the assignment itself: assignee, timeline entry, status
ApplyAssign(user, obj, req) ==
    LET assigned_user == Users[req.assigned_to]
        o1 == SetAttr(SetAttr(SetAttr(obj, "assigned_to", req.assigned_to),
                              "assigned_to_name", assigned_user.name),
                      "assigned_at", Now)
        o2 == AppendJson(o1, "timeline",
                  [action |-> IF o1.row.assigned_to # None
                              THEN <<"Reassigned to ", assigned_user.name>>
                              ELSE <<"Assigned to ", assigned_user.name>>,
                   by |-> user.name])
    IN  SetAttr(o2, "status", IN_PROGRESS)

\* update_complaint, as it would be if the complaint were loaded before the
\* role of the requester is looked at
update_complaint_LoadFirst(actor, cid, req) ==
    LET user == Users[actor]
    IN  IF cid \notin DOMAIN complaints
            THEN Reject("NotFound", 404, "complaint not found", NoObject)
        ELSE IF user.role \notin {ADMIN, STAFF, HOD, PRINCIPAL}
            THEN Reject("PermissionDenied", 403, "permission denied",
                        Load(complaints[cid]))
        ELSE LET o0 == Load(complaints[cid])
             IN  IF req.status # None /\ user.role = HOD
                     THEN Reject("PermissionDenied", 403, "HOD cannot change status", o0)
                 ELSE LET o1 == IF req.status # None THEN ApplyStatus(user, o0, req) ELSE o0
                          o2 == IF req.response_text # None
                                THEN ApplyResponse(user, o1, req) ELSE o1
                      IN  IF req.assigned_to = None THEN Commit(200, "updated", o2)
                          ELSE LET g == AssignGuard(user, o2.row, req)
                               IN  IF g.result # "Ok"
                                   THEN Reject(g.result, g.code, g.message, o2)
                                   ELSE Commit(200, "updated", ApplyAssign(user, o2, req))

update_complaint(actor, cid, req) ==
    LET user == Users[actor]
    IN  IF user.role \notin {ADMIN, STAFF, HOD, PRINCIPAL}
            THEN Reject("PermissionDenied", 403, "permission denied", NoObject)
        ELSE IF cid \notin DOMAIN complaints
            THEN Reject("NotFound", 404, "complaint not found", NoObject)
        ELSE LET o0 == Load(complaints[cid])
             IN  IF req.status # None /\ user.role = HOD
                     THEN Reject("PermissionDenied", 403, "HOD cannot change status", o0)
                 ELSE LET o1 == IF req.status # None THEN ApplyStatus(user, o0, req) ELSE o0
                          o2 == IF req.response_text # None
                                THEN ApplyResponse(user, o1, req) ELSE o1
                      IN  IF req.assigned_to = None THEN Commit(200, "updated", o2)
                          ELSE LET g == AssignGuard(user, o2.row, req)
                               IN  IF g.result # "Ok"
                                   THEN Reject(g.result, g.code, g.message, o2)
                                   ELSE Commit(200, "updated", ApplyAssign(user, o2, req))

UpdateComplaint(actor, cid, req) ==
    LET out == update_complaint(actor, cid, req)
    IN  /\ complaints' = IF cid \in DOMAIN complaints
                         THEN [complaints EXCEPT ![cid] = Stored(cid, out)]
                         ELSE complaints
        /\ UNCHANGED <<nextId, sessions, startup>>
        /\ last' = Response("update", cid, {f \in DOMAIN req : req[f] # None}, out)

(***************************************************************************)
(* conflict_detection.py: verification gate and escalation map.            *)
(***************************************************************************)
\* the (can_verify, reason) pair; the reason is kept as its kind
can_user_verify_complaint(user_name, user_role, complaint_title, complaint_description) ==
    IF IsMentioned(user_name, complaint_title, complaint_description)
    THEN IF user_role = "hod"
            THEN [allowed |-> FALSE, reason |-> "cannot verify, will be escalated"]
         ELSE IF user_role \in {"staff", "principal"}
            THEN [allowed |-> FALSE, reason |-> "cannot handle"]
         ELSE [allowed |-> TRUE, reason |-> ""]
    ELSE [allowed |-> TRUE, reason |-> ""]

escalation_map ==
    [r \in {"hod", "principal", "staff"} |->
        CASE r = "hod" -> "principal"
          [] r = "principal" -> "admin"
          [] r = "staff" -> "hod"]

\* get_escalation_authority, as it would be if a role outside the map escalated
\* to the Admin
get_escalation_authority_DefaultAdmin(blocked_user_role) ==
    IF blocked_user_role \in DOMAIN escalation_map
    THEN escalation_map[blocked_user_role] ELSE ADMIN

\* get_escalation_authority, as it would be if the Admin escalated back to the
\* Principal
get_escalation_authority_AdminToPrincipal(blocked_user_role) ==
    IF blocked_user_role = ADMIN THEN PRINCIPAL
    ELSE DictGet(escalation_map, blocked_user_role)

get_escalation_authority(blocked_user_role) == DictGet(escalation_map, blocked_user_role)

(***************************************************************************)
(* POST /complaints/{id}/status  (update_complaint_status), behind the     *)
(* dependency require_roles("HOD", "PRINCIPAL", "ADMIN") of server.py.     *)
(***************************************************************************)
\* get_current_user returns a dict, and a dict is not callable
DictIsCallable == FALSE

\* role_checker: "TypeError" when  current_user()  raises, "Forbidden" for the
\* HTTPException(403), "Pass" when it returns the user
require_roles(allowed_roles, current_user) ==
    IF ~DictIsCallable THEN "TypeError"
    ELSE IF current_user.role \notin allowed_roles THEN "Forbidden"
    ELSE "Pass"

update_complaint_status(actor, cid, status, remarks) ==
    LET user == Users[actor]
        dep == require_roles({"HOD", "PRINCIPAL", "ADMIN"}, user)
    IN  IF dep = "TypeError"
            THEN Reject("InternalError", 500, "internal server error", NoObject)
        ELSE IF dep = "Forbidden"
            THEN Reject("PermissionDenied", 403, "not enough permissions", NoObject)
        ELSE IF cid \notin DOMAIN complaints
            THEN Reject("NotFound", 404, "complaint not found", NoObject)
        ELSE LET o0 == Load(complaints[cid])
                 v == can_user_verify_complaint(user.name, user.role,
                                                o0.row.title, o0.row.description)
             IN  IF ~v.allowed
                 THEN [Reject("ConflictOfInterest", 403, v.reason, o0)
                          EXCEPT !.escalate_to = get_escalation_authority(user.role)]
                 ELSE Commit(200, "success",
                             AppendInPlace(SetAttr(o0, "status", status), "timeline",
                                 [status |-> status, note |-> <<remarks>>,
                                  updated_by |-> user.name]))

UpdateComplaintStatus(actor, cid, status) ==
    LET out == update_complaint_status(actor, cid, status, "remarks")
    IN  /\ complaints' = IF cid \in DOMAIN complaints
                         THEN [complaints EXCEPT ![cid] = Stored(cid, out)]
                         ELSE complaints
        /\ UNCHANGED <<nextId, sessions, startup>>
        /\ last' = Response("status", cid, {"status"}, out)

(***************************************************************************)
(* DELETE /complaints/{id}  (delete_complaint).                            *)
(***************************************************************************)
Refuse(result, code, message) ==
    [result |-> result, code |-> code, message |-> message, delete |-> FALSE]

\* delete_complaint without the check of confirm
delete_complaint_NoConfirm(actor, cid, confirm) ==
    LET user == Users[actor]
    IN  IF cid \notin DOMAIN complaints
            THEN Refuse("NotFound", 404, "complaint not found")
        ELSE IF user.role = ADMIN
            THEN [result |-> "Ok", code |-> 200, message |-> "deleted", delete |-> TRUE]
        ELSE IF user.role = STAFF
            THEN IF complaints[cid].assigned_to # user.id
                    THEN Refuse("PermissionDenied", 403, "not assigned to you")
                 ELSE IF complaints[cid].status # RESOLVED
                    THEN Refuse("ValidationFailed", 400, "must be resolved")
                 ELSE [result |-> "Ok", code |-> 200, message |-> "completed",
                       delete |-> TRUE]
        ELSE Refuse("PermissionDenied", 403, "permission denied")

\* delete_complaint without the check that a Staff user's complaint is resolved
delete_complaint_StaffAnyStatus(actor, cid, confirm) ==
    LET user == Users[actor]
    IN  IF cid \notin DOMAIN complaints
            THEN Refuse("NotFound", 404, "complaint not found")
        ELSE IF ~confirm
            THEN Refuse("ValidationFailed", 400, "confirmation required")
        ELSE IF user.role = ADMIN
            THEN [result |-> "Ok", code |-> 200, message |-> "deleted", delete |-> TRUE]
        ELSE IF user.role = STAFF
            THEN IF complaints[cid].assigned_to # user.id
                    THEN Refuse("PermissionDenied", 403, "not assigned to you")
                 ELSE [result |-> "Ok", code |-> 200, message |-> "completed",
                       delete |-> TRUE]
        ELSE Refuse("PermissionDenied", 403, "permission denied")

\* delete_complaint that lets the roles other than Admin and Staff delete
delete_complaint_AnyRole(actor, cid, confirm) ==
    LET user == Users[actor]
    IN  IF cid \notin DOMAIN complaints
            THEN Refuse("NotFound", 404, "complaint not found")
        ELSE IF ~confirm
            THEN Refuse("ValidationFailed", 400, "confirmation required")
        ELSE IF user.role = ADMIN
            THEN [result |-> "Ok", code |-> 200, message |-> "deleted", delete |-> TRUE]
        ELSE IF user.role = STAFF
            THEN IF complaints[cid].assigned_to # user.id
                    THEN Refuse("PermissionDenied", 403, "not assigned to you")
                 ELSE IF complaints[cid].status # RESOLVED
                    THEN Refuse("ValidationFailed", 400, "must be resolved")
                 ELSE [result |-> "Ok", code |-> 200, message |-> "completed",
                       delete |-> TRUE]
        ELSE [result |-> "Ok", code |-> 200, message |-> "deleted", delete |-> TRUE]

\* the response and whether the row is deleted
delete_complaint(actor, cid, confirm) ==
    LET user == Users[actor]
    IN  IF cid \notin DOMAIN complaints
            THEN Refuse("NotFound", 404, "complaint not found")
        ELSE IF ~confirm
            THEN Refuse("ValidationFailed", 400, "confirmation required")
        ELSE IF user.role = ADMIN
            THEN [result |-> "Ok", code |-> 200, message |-> "deleted", delete |-> TRUE]
        ELSE IF user.role = STAFF
            THEN IF complaints[cid].assigned_to # user.id
                    THEN Refuse("PermissionDenied", 403, "not assigned to you")
                 ELSE IF complaints[cid].status # RESOLVED
                    THEN Refuse("ValidationFailed", 400, "must be resolved")
                 ELSE [result |-> "Ok", code |-> 200, message |-> "completed",
                       delete |-> TRUE]
        ELSE Refuse("PermissionDenied", 403, "permission denied")

DeleteComplaint(actor, cid, confirm) ==
    LET out == delete_complaint(actor, cid, confirm)
    IN  /\ complaints' = IF out.delete
                         THEN [c \in (DOMAIN complaints) \ {cid} |-> complaints[c]]
                         ELSE complaints
        /\ UNCHANGED <<nextId, sessions, startup>>
        /\ last' = Response("delete", cid, {}, out)

(***************************************************************************)
(* POST /complaints/{id}/support  (support_complaint): any user toggles    *)
(* its support.                                                            *)
(***************************************************************************)
support_complaint(actor, cid) ==
    IF cid \notin DOMAIN complaints
        THEN Reject("NotFound", 404, "complaint not found", NoObject)
    ELSE LET o0 == Load(complaints[cid])
             supported_by == o0.row.supported_by
         IN  IF actor \in Range(supported_by)
             THEN LET rest == SelectSeq(supported_by, LAMBDA uid : uid # actor)
                      count == IF o0.row.support_count >= 1
                               THEN o0.row.support_count - 1 ELSE 0
                  IN  Commit(200, "support updated",
                             SetAttr(SetJson(o0, "supported_by", rest),
                                     "support_count", count))
             ELSE Commit(200, "support updated",
                         SetAttr(AppendJson(o0, "supported_by", actor),
                                 "support_count", o0.row.support_count + 1))

(***************************************************************************)
(* The requests of the model.  AllRequests and UserIds are what the        *)
(* properties quantify over; the next-state relation sends the requests of *)
(* CreateRequests and Requests, from one user of each kind the handlers    *)
(* tell apart.                                                             *)
(***************************************************************************)
AllRequests ==
    [status : {None} \cup StatusInputs,
     response_text : {None, "reply"},
     assigned_to : {None, GhostId} \cup UserIds]

\* (user, text, category) of the submitted complaints: a student's, and one of a
\* user that is no student and has no department (the handler does not look at
\* the role)
CreateRequests ==
    ({"stu"} \X Texts \X {"Academic Issues", "Lab", "Other"})
        \cup {<<"adm", TextPlain, "Academic Issues">>}

Targets == {"ap", "lab", "hodE", "stu", GhostId}

\* the statuses the next-state relation asks for: the initial one, one that
\* closes a complaint, and one that is no ComplaintStatus
StatusRequests == {SUBMITTED, RESOLVED, "closed"}

\* the users that send a request with a response text alone
Responders == {"stu", "adm"}

Requests ==
    {r \in AllRequests :
        \/ r.response_text = None /\ r.assigned_to = None /\ r.status \in StatusRequests
        \/ r.response_text # None /\ r.assigned_to = None /\ r.status = None
        \/ r.assigned_to \in Targets
             /\ \/ r.status = None /\ r.response_text = None
                \/ r.status = RESOLVED /\ r.response_text = None
                \/ r.status = None /\ r.response_text # None}

UpdateActors == {"stu", "hod", "hodE", "ap", "adm"}

\* (user, request) of the updates: a response text alone comes from Responders
UpdateRequests ==
    {ur \in UpdateActors \X Requests :
        (ur[2].assigned_to = None /\ ur[2].status = None) => ur[1] \in Responders}

Next ==
    \/ \E cr \in CreateRequests : CreateComplaint(cr[1], cr[2], cr[3])
    \/ \E ur \in UpdateRequests, cid \in ComplaintIds :
           UpdateComplaint(ur[1], cid, ur[2])
    \/ \E actor \in UserIds, cid \in ComplaintIds, status \in StatusInputs :
           UpdateComplaintStatus(actor, cid, status)
    \/ \E actor \in UserIds, cid \in ComplaintIds, confirm \in BOOLEAN :
           DeleteComplaint(actor, cid, confirm)

Spec == Init /\ [][Next]_vars

(***************************************************************************)
(* Properties.  The ones about a request quantify over every user and      *)
(* every request of AllRequests, in every reachable state of the table.    *)
(***************************************************************************)
NoFields == [status |-> None, response_text |-> None, assigned_to |-> None]

\* a request that only sets the status
SetStatusRequest(status) == [NoFields EXCEPT !.status = status]

Departments == {Users[u].department : u \in UserIds}

\* the actor may assign complaint c with request req: a role that may update,
\* no status change by an HOD, and for an HOD-authority category the HOD of
\* the student's department
AuthorizedAssigner(user, c, req) ==
    /\ user.role \in {ADMIN, STAFF, HOD, PRINCIPAL}
    /\ (req.status # None => user.role # HOD)
    /\ (c.category \in HOD_CATEGORIES =>
            user.role = HOD /\ user.department = c.student_department)

\* the target passes the department and operational-role checks of an
\* HOD-authority category
AdmissibleTarget(user, c, target) ==
    c.category \in HOD_CATEGORIES =>
        /\ target.department = c.student_department
        /\ (user.role = HOD => target.staff_role = ASSISTANT_PROFESSOR)

\* C1: an update that assigns to a user whose name is mentioned in the
\* complaint's title or description is rejected and leaves the stored complaint
\* (assignee, assignee name, assignment time, status, timeline) as it was, for
\* every category and actor; when the actor is authorized and the target passes
\* the category's department and role checks, the rejection is the conflict of
\* interest
C1_MentionedTargetRejected ==
    \A actor \in UserIds, cid \in DOMAIN complaints, req \in AllRequests :
        LET c == complaints[cid]
            out == update_complaint(actor, cid, req)
        IN  (req.assigned_to \in UserIds
               /\ IsMentioned(Users[req.assigned_to].name, c.title, c.description))
            => /\ out.result \in Rejections
               /\ Stored(cid, out) = c
               /\ (AuthorizedAssigner(Users[actor], c, req)
                     /\ AdmissibleTarget(Users[actor], c, Users[req.assigned_to]))
                  => out.result = "ConflictOfInterest"

\* an assignment was just rejected as a conflict of interest
C1_Witness ==
    /\ last.op = "update" /\ last.result = "ConflictOfInterest"
    /\ "assigned_to" \in last.fields
    /\ last.cid \in DOMAIN complaints

\* C2: the handler that auto-assignment writes to a newly created complaint is
\* never a user whose name is mentioned in the complaint
C2_AutoAssignedNotMentioned ==
    \A cid \in DOMAIN complaints :
        (last.op = "create" /\ last.cid = cid /\ complaints[cid].assigned_to # None)
        => ~IsMentioned(complaints[cid].assigned_to_name,
                        complaints[cid].title, complaints[cid].description)

\* C3: every complaint with an assignee has an assignment time and a status
\* other than Submitted
C3_AssignedNotSubmitted ==
    \A cid \in DOMAIN complaints :
        complaints[cid].assigned_to # None
        => complaints[cid].assigned_at # None /\ complaints[cid].status # SUBMITTED

\* C4: after a successful update that assigns, the stored complaint is
\* InProgress, has an assignment time, and its assignee id and name are the
\* target's, whatever the status before and whatever status the request carries
C4_AssignForcesInProgress ==
    \A actor \in UserIds, cid \in DOMAIN complaints, req \in AllRequests :
        LET out == update_complaint(actor, cid, req)
            after == Stored(cid, out)
        IN  (req.assigned_to # None /\ out.result = "Ok")
            => /\ after.status = IN_PROGRESS
               /\ after.assigned_at # None
               /\ after.assigned_to = req.assigned_to
               /\ req.assigned_to \in UserIds
               /\ after.assigned_to_name = Users[req.assigned_to].name

\* an update that carried a status and an assignee has just succeeded
C4_Witness ==
    /\ last.op = "update" /\ last.result = "Ok"
    /\ last.fields = {"status", "assigned_to"}
    /\ last.cid \in DOMAIN complaints
    /\ complaints[last.cid].status = IN_PROGRESS
    /\ complaints[last.cid].assigned_to = "stu"

\* C5: a status change is accepted only from Admin, Staff and Principal; from
\* an HOD both the update operation and the status operation answer with a
\* permission error and leave the stored complaint as it was
C5_HodSetStatusPermissionDenied ==
    \A actor \in UserIds, cid \in DOMAIN complaints, status \in StatusInputs :
        LET c == complaints[cid]
            viaUpdate == update_complaint(actor, cid, SetStatusRequest(status))
            viaStatus == update_complaint_status(actor, cid, status, "remarks")
        IN  /\ (viaUpdate.result = "Ok" \/ viaStatus.result = "Ok")
                 => Users[actor].role \in {ADMIN, STAFF, PRINCIPAL}
            /\ Users[actor].role = HOD
                 => /\ viaUpdate.result = "PermissionDenied"
                    /\ Stored(cid, viaUpdate) = c
                    /\ viaStatus.result = "PermissionDenied"
                    /\ Stored(cid, viaStatus) = c

\* C6: a Staff or Principal actor whose name is mentioned in the complaint
\* and who sets an adjudicating status is rejected as a conflict of interest
\* that names the escalation authority of the actor's role, and the status is
\* unchanged
C6_MentionedActorCannotAdjudicate ==
    \A actor \in UserIds, cid \in DOMAIN complaints :
        LET c == complaints[cid]
            user == Users[actor]
            out == update_complaint(actor, cid, SetStatusRequest(RESOLVED))
        IN  (user.role \in {STAFF, PRINCIPAL}
               /\ IsMentioned(user.name, c.title, c.description))
            => /\ out.result = "ConflictOfInterest"
               /\ out.escalate_to = get_escalation_authority(user.role)
               /\ Stored(cid, out).status = c.status

\* C7: an update, status or delete request that is rejected leaves the stored
\* complaint exactly as it was, also when the request carries a status or a
\* response next to the assignee whose check fails
C7_RejectedRequestChangesNothing ==
    \A actor \in UserIds, cid \in DOMAIN complaints :
        /\ \A req \in AllRequests :
              LET out == update_complaint(actor, cid, req)
              IN  out.result \in Rejections => Stored(cid, out) = complaints[cid]
        /\ \A status \in StatusInputs :
              LET out == update_complaint_status(actor, cid, status, "remarks")
              IN  out.result \in Rejections => Stored(cid, out) = complaints[cid]
        /\ \A confirm \in BOOLEAN :
              LET out == delete_complaint(actor, cid, confirm)
              IN  out.result \in Rejections => ~out.delete

\* an update carrying a status and an assignee was just rejected at the
\* assignee checks, and the complaint still has its submitted status
C7_Witness ==
    /\ last.op = "update" /\ last.result \in Rejections
    /\ last.fields = {"status", "assigned_to"}
    /\ last.message \in {"staff member not found", "mentioned in the complaint",
                         "only the HOD can reassign"}
    /\ last.cid \in DOMAIN complaints
    /\ complaints[last.cid].status = SUBMITTED

\* C8: the status of every stored complaint is one of Submitted, Reviewed,
\* InProgress, Resolved, Rejected
C8_StatusInEnumeration ==
    \A cid \in DOMAIN complaints : complaints[cid].status \in ComplaintStatus

\* C9: for a complaint of an HOD-authority category an assignment succeeds only
\* when the actor is the HOD of the complaint's student department; from every
\* other actor it is rejected as permission denied and nothing is modified
C9_OnlyDepartmentHodAssigns ==
    \A actor \in UserIds, cid \in DOMAIN complaints, req \in AllRequests :
        LET c == complaints[cid]
            user == Users[actor]
            out == update_complaint(actor, cid, req)
            departmentHod == user.role = HOD /\ user.department = c.student_department
        IN  (c.category \in HOD_CATEGORIES /\ req.assigned_to # None)
            => /\ out.result = "Ok" => departmentHod
               /\ ~departmentHod
                    => out.result = "PermissionDenied" /\ Stored(cid, out) = c

\* the HOD of another department was just refused an assignment
C9_Witness ==
    /\ last.op = "update" /\ last.result = "PermissionDenied"
    /\ last.message = "only complaints from your own department"
    /\ last.cid \in DOMAIN complaints
    /\ complaints[last.cid].category \in HOD_CATEGORIES

\* C10: a stored complaint of an HOD-authority category that has an assignee
\* is assigned to a user of the complaint's student department; auto-assignment
\* returns no handler of another department for such a category, and no manual
\* assignment to a user of another department succeeds
C10_HodCategoryAssigneeInDepartment ==
    /\ \A cid \in DOMAIN complaints :
          LET c == complaints[cid]
          IN  (c.category \in HOD_CATEGORIES /\ c.assigned_to # None)
              => /\ c.assigned_to \in UserIds
                 /\ Users[c.assigned_to].department = c.student_department
    /\ \A category \in HOD_CATEGORIES, department \in Departments :
          \A handler \in auto_assign_complaint(category, department) :
              handler # NoHandler => Users[handler.id].department = department
    /\ \A actor \in UserIds, cid \in DOMAIN complaints, req \in AllRequests :
          LET c == complaints[cid]
              out == update_complaint(actor, cid, req)
          IN  (c.category \in HOD_CATEGORIES /\ req.assigned_to # None
                 /\ out.result = "Ok")
              => Users[req.assigned_to].department = c.student_department

\* a complaint of an HOD-authority category was just assigned by hand to an
\* Assistant Professor of the student's department
C10_Witness ==
    /\ last.op = "update" /\ last.result = "Ok" /\ "assigned_to" \in last.fields
    /\ last.cid \in DOMAIN complaints
    /\ complaints[last.cid].category \in HOD_CATEGORIES
    /\ complaints[last.cid].assigned_to = "ap"

C12_HodAssignsOwnDepartmentOnly ==
    \A actor \in UserIds, cid \in DOMAIN complaints, req \in AllRequests :
        (Users[actor].role = HOD /\ req.assigned_to # None
           /\ Users[actor].department # complaints[cid].student_department)
        => update_complaint(actor, cid, req).result # "Ok"

(***************************************************************************)
(* SpecLoad: the routing of operational-role categories under load.  Two   *)
(* users submit Lab and Library complaints, the admin resolves, reassigns  *)
(* and deletes them; the two Lab Assistants take the load.                 *)
(***************************************************************************)
LoadComplaintIds == 1..MaxLoadComplaints

LoadCreateRequests == {"stu", "adm"} \X Texts \X {"Lab", "Library"}

LoadRequests ==
    {r \in AllRequests :
        /\ r.response_text = None
        /\ \/ r.status = RESOLVED /\ r.assigned_to = None
           \/ r.status = None /\ r.assigned_to = "lab2"}

LoadNext ==
    \/ \E cr \in LoadCreateRequests : CreateUpTo(MaxLoadComplaints, cr[1], cr[2], cr[3])
    \/ \E cid \in LoadComplaintIds, req \in LoadRequests : UpdateComplaint("adm", cid, req)
    \/ \E cid \in LoadComplaintIds : DeleteComplaint("adm", cid, TRUE)

SpecLoad == Init /\ [][LoadNext]_vars

\* every category a complaint can be routed by, and one that has no route
RoutedCategories == CategoryKeys \cup HOD_CATEGORIES \cup {"Other"}

\* the Staff users with the operational role a category is mapped to
MatchingStaff(category) ==
    {u \in UserIds : /\ category \in CategoryKeys
                     /\ Users[u].role = STAFF
                     /\ Users[u].staff_role = CATEGORY_TO_STAFF_ROLE[category]}

\* active load: the complaints assigned to a user that are neither Resolved
\* nor Rejected, the complaints of ids in except left out
ActiveLoad(user_id, except) ==
    Cardinality({c \in (DOMAIN complaints) \ except :
        /\ complaints[c].assigned_to = user_id
        /\ ~(complaints[c].status = RESOLVED \/ complaints[c].status = REJECTED)})

\* C13: for every category mapped to an operational role that some Staff user
\* has, auto-assignment returns a Staff user of that role whose active load is
\* at most the active load of every other Staff user of the role; and the
\* handler of a complaint that was just created had the least load among them
\* before the complaint was stored
C13_AutoAssignLeastLoaded ==
    /\ \A category \in CategoryKeys, department \in Departments :
          MatchingStaff(category) # {}
          => \A handler \in auto_assign_complaint(category, department) :
                /\ handler.id \in MatchingStaff(category)
                /\ \A t \in MatchingStaff(category) :
                      ActiveLoad(handler.id, {}) <= ActiveLoad(t, {})
    /\ (last.op = "create" /\ last.result = "Ok")
       => LET c == complaints[last.cid]
          IN  MatchingStaff(c.category) # {}
              => /\ c.assigned_to \in MatchingStaff(c.category)
                 /\ \A t \in MatchingStaff(c.category) :
                       ActiveLoad(c.assigned_to, {last.cid}) <= ActiveLoad(t, {last.cid})

\* the second complaint was just routed to the Lab Assistant without load
\* while the other Lab Assistant holds the first, still active, complaint
C13_Witness ==
    /\ last.op = "create" /\ last.result = "Ok" /\ last.cid = 2
    /\ DOMAIN complaints = {1, 2}
    /\ complaints[1].assigned_to = "lab" /\ complaints[1].status = SUBMITTED
    /\ complaints[2].assigned_to = "lab2"

\* C15: for a fixed table, auto-assignment can return one handler only,
\* whatever the order in which the queries return their rows
C15_AutoAssignDeterministic ==
    \A category \in RoutedCategories, department \in Departments :
        Cardinality(auto_assign_complaint(category, department)) = 1

\* the routing has nobody to return: no category or a category without a
\* route, an HOD-authority category with no department or no HOD of the
\* department, an operational-role category whose role no Staff user has
NoRoute(category, department) ==
    \/ category = None
    \/ category \notin HOD_CATEGORIES \cup CategoryKeys
    \/ /\ category \in HOD_CATEGORIES
       /\ \/ department = None
          \/ ~\E u \in UserIds : Users[u].role = HOD /\ Users[u].department = department
    \/ category \in CategoryKeys /\ MatchingStaff(category) = {}

C16_DeleteNeedsConfirm ==
    \A actor \in UserIds, cid \in DOMAIN complaints :
        LET out == delete_complaint(actor, cid, FALSE)
        IN  out.result = "ValidationFailed" /\ ~out.delete

\* a delete without confirm was just refused and the complaint is still stored
C16_Witness ==
    /\ last.op = "delete" /\ last.result = "ValidationFailed"
    /\ last.message = "confirmation required"
    /\ last.cid \in DOMAIN complaints

\* C17: a confirmed delete by a Staff user removes the complaint exactly when
\* the complaint is assigned to that user and Resolved; when it is not assigned
\* to the user the result is PermissionDenied, when it is assigned to the user
\* and not Resolved the result is ValidationFailed, and in both cases the
\* complaint stays
C17_StaffDeletesOwnResolved ==
    \A actor \in UserIds, cid \in DOMAIN complaints :
        LET c == complaints[cid]
            out == delete_complaint(actor, cid, TRUE)
        IN  Users[actor].role = STAFF
            => /\ out.delete <=> (c.assigned_to = actor /\ c.status = RESOLVED)
               /\ c.assigned_to # actor
                    => out.result = "PermissionDenied" /\ ~out.delete
               /\ (c.assigned_to = actor /\ c.status # RESOLVED)
                    => out.result = "ValidationFailed" /\ ~out.delete

\* the Staff user a complaint is assigned to was just refused its deletion
\* because it is in progress
C17_Witness ==
    /\ last.op = "delete" /\ last.result = "ValidationFailed"
    /\ last.message = "must be resolved"
    /\ last.cid \in DOMAIN complaints
    /\ complaints[last.cid].status = IN_PROGRESS
    /\ complaints[last.cid].assigned_to \in {u \in UserIds : Users[u].role = STAFF}

\* the delete requests that remove complaint cid
Removers(cid) ==
    {a \in UserIds \X BOOLEAN : delete_complaint(a[1], cid, a[2]).delete}

\* C18: a delete request removes a complaint only when it is confirmed and
\* comes from an Admin, or from the Staff user the complaint is assigned to
\* while its status is Resolved; confirmed requests from Student, HOD and
\* Principal users return PermissionDenied; and no step removes a complaint
\* but a delete that answered with success
C18_OnlyAdminOrOwnerDeletes ==
    /\ [](\A cid \in DOMAIN complaints :
            /\ \A a \in Removers(cid) :
                  /\ a[2]
                  /\ \/ Users[a[1]].role = ADMIN
                     \/ /\ Users[a[1]].role = STAFF
                        /\ complaints[cid].assigned_to = a[1]
                        /\ complaints[cid].status = RESOLVED
            /\ \A actor \in UserIds :
                  Users[actor].role \in {STUDENT, HOD, PRINCIPAL}
                  => delete_complaint(actor, cid, TRUE).result = "PermissionDenied")
    /\ [][\A cid \in DOMAIN complaints :
            cid \notin DOMAIN complaints'
            => /\ last'.op = "delete" /\ last'.result = "Ok" /\ last'.cid = cid
               /\ Removers(cid) # {}]_vars

\* a Staff user just completed (deleted) the resolved complaint assigned to it
C18_Witness ==
    /\ last.op = "delete" /\ last.result = "Ok" /\ last.message = "completed"
    /\ last.cid \notin DOMAIN complaints

\* a is an initial segment of b
IsPrefix(a, b) == Len(a) <= Len(b) /\ SubSeq(b, 1, Len(a)) = a

\* C19: the timeline of a complaint is append-only: whatever an update, status
\* or support request of any user leaves stored, the timeline before it is a
\* prefix of the timeline after it; and in every step the timeline of every
\* complaint that stays in the table only grows at its end
C19_TimelineAppendOnly ==
    /\ [](\A cid \in DOMAIN complaints, actor \in UserIds :
            LET before == complaints[cid].timeline
            IN  /\ \A req \in AllRequests :
                      IsPrefix(before,
                               Stored(cid, update_complaint(actor, cid, req)).timeline)
                /\ \A status \in StatusInputs :
                      IsPrefix(before,
                               Stored(cid, update_complaint_status(actor, cid, status,
                                                                   "remarks")).timeline)
                /\ IsPrefix(before, Stored(cid, support_complaint(actor, cid)).timeline))
    /\ [][\A cid \in (DOMAIN complaints) \cap (DOMAIN complaints') :
            IsPrefix(complaints[cid].timeline, complaints'[cid].timeline)]_vars

\* a status change has just been stored for a complaint that still has its
\* submitted and auto-assigned entries at the head of the timeline
C19_Witness ==
    /\ last.op = "update" /\ last.result = "Ok" /\ last.fields = {"status"}
    /\ last.cid \in DOMAIN complaints
    /\ Len(complaints[last.cid].timeline) >= 2
    /\ complaints[last.cid].timeline[1].status = SUBMITTED
    /\ complaints[last.cid].timeline[2].status = "auto_assigned"
    /\ complaints[last.cid].status = RESOLVED

\* roles a verification is asked for
VerifierRoles == {HOD, STAFF, PRINCIPAL, ADMIN}

\* C20: for every stored complaint and every user name,
\* can_user_verify_complaint answers not allowed, with a reason, whenever
\* the name is mentioned in the complaint, for each of the roles HOD,
\* Staff, Principal and Admin, and (allowed, "") whenever it is not mentioned
C20_MentionedCannotVerify ==
    \A cid \in DOMAIN complaints, u \in UserIds, role \in VerifierRoles :
        LET c == complaints[cid]
            v == can_user_verify_complaint(Users[u].name, role, c.title, c.description)
        IN  IF is_staff_mentioned_in_complaint(Users[u].name, c.title, c.description)
            THEN ~v.allowed /\ v.reason # ""
            ELSE v.allowed /\ v.reason = ""

(***************************************************************************)
(* The functions of conflict_detection.py on their own: each step is one   *)
(* call, and the response records the arguments and the value returned.    *)
(***************************************************************************)
\* staff names the mention check is called with: empty and blank, of one and
\* of two tokens, with tokens of two characters and with punctuation
MentionNames ==
    {<<>>,
     <<" ">>,
     <<"A","l">>,
     <<"J","o","h","n">>,
     <<"A","n","n"," ","L","e","e">>,
     <<"A","N","N"," ","L","E","E">>,
     <<" ","a","n","n"," ","l","e","e"," ">>,
     <<"D","r","."," ","R","a","o">>,
     <<"A","l"," ","R","o","e">>,
     <<"J","o"," ","R","o","y">>,
     <<"L","e","e">>,
     <<"M","r"," ","X">>}

\* (title, description) pairs the mention check is called with
MentionTexts ==
    {<<<<"A","l","f","r","e","d","'","s"," ","c","l","a","s","s">>,
       <<>>>>,
     <<<<"J","o","h","n","s","o","n">>,
       <<"l","a","t","e">>>>,
     <<<<"I","s","s","u","e"," ","w","i","t","h"," ","A","n","n"," ","L","e","e">>,
       <<>>>>,
     <<<<"P","r","o","f","e","s","s","o","r"," ","R","a","o"," ","i","s"," ","u","n","f","a","i","r">>,
       <<>>>>,
     <<<<"A","n","n">>,
       <<"L","e","e">>>>,
     <<<<>>,
       <<"a","l"," ","i","s"," ","l","a","t","e">>>>,
     <<<<"L","E","E","W","A","Y">>,
       <<"r","o","y","_","1">>>>,
     <<<<>>,
       <<>>>>,
     <<<<"w","i","f","i">>,
       <<"s","l","o","w">>>>,
     <<<<"d","r","."," ","w","h","o">>,
       <<"R","O","Y","!">>>>}

\* roles the escalation lookup is called with: the five of UserRole and a
\* string that is no role
EscalationRoles == {STUDENT, STAFF, HOD, PRINCIPAL, ADMIN, "guest"}

\* one call of is_staff_mentioned_in_complaint
MentionCheck(staff_name, complaint_title, complaint_description) ==
    /\ last' = [op |-> "is_staff_mentioned_in_complaint", cid |-> 0, fields |-> {},
                result |-> "Ok", code |-> 0, message |-> None,
                data |-> [staff_name |-> staff_name,
                          complaint_title |-> complaint_title,
                          complaint_description |-> complaint_description,
                          mentioned |-> is_staff_mentioned_in_complaint(
                              staff_name, complaint_title, complaint_description)]]
    /\ UNCHANGED <<complaints, nextId, sessions, startup>>

\* one call of get_escalation_authority
EscalationLookup(blocked_user_role) ==
    /\ last' = [op |-> "get_escalation_authority", cid |-> 0, fields |-> {},
                result |-> "Ok", code |-> 0, message |-> None,
                data |-> [blocked_user_role |-> blocked_user_role,
                          authority |-> get_escalation_authority(blocked_user_role)]]
    /\ UNCHANGED <<complaints, nextId, sessions, startup>>

ConflictNext ==
    \/ \E staff_name \in MentionNames, text \in MentionTexts :
           MentionCheck(staff_name, text[1], text[2])
    \/ \E blocked_user_role \in EscalationRoles : EscalationLookup(blocked_user_role)

SpecConflict == Init /\ [][ConflictNext]_vars

\* C21: the escalation lookup returns Principal for HOD, Admin for Principal,
\* HOD for Staff, and None for Admin and for every other role; every call
\* returns
C21_EscalationMap ==
    last.op = "get_escalation_authority" =>
        /\ last.result = "Ok"
        /\ last.data.authority =
               IF last.data.blocked_user_role = HOD THEN PRINCIPAL
               ELSE IF last.data.blocked_user_role = PRINCIPAL THEN ADMIN
               ELSE IF last.data.blocked_user_role = STAFF THEN HOD
               ELSE None

\* the lookup was called for a Student and returned None
C21_Witness ==
    /\ last.op = "get_escalation_authority"
    /\ last.data.blocked_user_role = STUDENT
    /\ last.data.authority = None

\* the text the check searches and the name it searches for
SearchedText(title, description) == Lower(title \o <<" ">> \o description)
SearchedName(name) == Strip(Lower(name))

\* the occurrence of pat at position i of text is no part of a longer word:
\* the word characters at its ends do not continue into the text around it
StandsAlone(pat, text, i) ==
    /\ MatchAt(pat, text, i)
    /\ ~(WordAt(text, i - 1) /\ WordAt(text, i))
    /\ ~(WordAt(text, i + Len(pat) - 1) /\ WordAt(text, i + Len(pat)))

\* C22: a name is reported as mentioned only when the name, or one of its
\* tokens of more than two characters, occurs in the text other than as a
\* part of a longer word ("Al" is not mentioned in "Alfred's class", "John"
\* is not mentioned in "Johnson")
C22_WholeWordsOnly ==
    (last.op = "is_staff_mentioned_in_complaint" /\ last.data.mentioned) =>
        LET text == SearchedText(last.data.complaint_title,
                                 last.data.complaint_description)
            full == SearchedName(last.data.staff_name)
        IN  \E pat \in {full} \cup {tok \in Split(full) : Len(tok) > 2} :
                \E i \in 1..(Len(text) + 1) : StandsAlone(pat, text, i)

\* str.upper()
Upper(s) ==
    [i \in DOMAIN s |->
        IF s[i] \in Range(LowerChars)
        THEN UpperChars[CHOOSE k \in DOMAIN LowerChars : LowerChars[k] = s[i]]
        ELSE s[i]]

\* the definition of a mention: the name is not empty, and the searched name
\* is a substring of the searched text or a token of more than two characters
\* matches between two word boundaries
MentionedByDefinition(name, title, description) ==
    LET text == SearchedText(title, description)
        full == SearchedName(name)
    IN  /\ name # <<>>
        /\ \/ \E i \in 1..(Len(text) + 1) : MatchAt(full, text, i)
           \/ \E tok \in Split(full) :
                  /\ Len(tok) > 2
                  /\ \E i \in 1..Len(text) :
                         /\ MatchAt(tok, text, i)
                         /\ Boundary(text, i - 1)
                         /\ Boundary(text, i + Len(tok) - 1)

MaxQueryComplaints == 2

get_eligible_staff(actor, cid) ==
    IF cid \notin DOMAIN complaints
        THEN [result |-> "NotFound", code |-> 404, message |-> "complaint not found",
              data |-> None]
    ELSE LET complaint == complaints[cid]
             all_staff ==
                 {u \in UserIds :
                     /\ Users[u].role = STAFF
                     /\ complaint.category \in HOD_CATEGORIES =>
                            /\ Users[u].department = complaint.student_department
                            /\ Users[u].staff_role = ASSISTANT_PROFESSOR}
             excluded ==
                 {u \in all_staff :
                     IsMentioned(Users[u].name, complaint.title, complaint.description)}
         IN  [result |-> "Ok", code |-> 200, message |-> "eligible staff",
              data |-> [staff |-> all_staff \ excluded,
                        excluded_count |-> Cardinality(excluded),
                        excluded_names |-> {Users[u].name : u \in excluded}]]

\* GetEligibleStaff, as it would be if the handler marked the complaint reviewed
GetEligibleStaff_MarkReviewed(actor, cid) ==
    LET out == get_eligible_staff(actor, cid)
    IN  /\ last' = [op |-> "eligible_staff", cid |-> cid, fields |-> {},
                    result |-> out.result, code |-> out.code, message |-> out.message,
                    data |-> out.data]
        /\ complaints' = IF cid \in DOMAIN complaints
                         THEN [complaints EXCEPT ![cid].status = REVIEWED]
                         ELSE complaints
        /\ UNCHANGED <<nextId, sessions, startup>>

GetEligibleStaff(actor, cid) ==
    LET out == get_eligible_staff(actor, cid)
    IN  /\ last' = [op |-> "eligible_staff", cid |-> cid, fields |-> {},
                    result |-> out.result, code |-> out.code, message |-> out.message,
                    data |-> out.data]
        /\ UNCHANGED <<complaints, nextId, sessions, startup>>

QueryComplaintIds == 1..MaxQueryComplaints

\* complaints are filed and deleted, and any user asks for the eligible staff
QueryNext ==
    \/ \E cr \in CreateRequests : CreateUpTo(MaxQueryComplaints, cr[1], cr[2], cr[3])
    \/ \E actor \in UserIds, cid \in QueryComplaintIds : GetEligibleStaff(actor, cid)
    \/ \E cid \in QueryComplaintIds : DeleteComplaint("adm", cid, TRUE)

SpecQuery == Init /\ [][QueryNext]_vars

\* C24: for a complaint of an HOD-authority category the eligible staff are
\* refused with PermissionDenied to everyone but the HOD of the student's
\* department, and a list that is returned holds users of that department
\* only; for the other categories the list holds Staff users only; no list
\* holds a user whose name is mentioned in the complaint
C24_EligibleStaffScoped ==
    \A cid \in DOMAIN complaints, actor \in UserIds :
        LET c == complaints[cid]
            out == get_eligible_staff(actor, cid)
        IN  /\ (c.category \in HOD_CATEGORIES
                  /\ ~(Users[actor].role = HOD
                         /\ Users[actor].department = c.student_department))
                   => out.result = "PermissionDenied"
            /\ out.result = "Ok" =>
                  \A u \in out.data.staff :
                      /\ c.category \in HOD_CATEGORIES =>
                             Users[u].department = c.student_department
                      /\ c.category \notin HOD_CATEGORIES => Users[u].role = STAFF
                      /\ ~is_staff_mentioned_in_complaint(Users[u].name,
                                                          c.title, c.description)

\* C25: a request for the eligible staff changes no complaint, and a second
\* request for the same complaint that follows the first with nothing in
\* between returns the same response
C25_EligibleStaffReadOnly ==
    [][last'.op = "eligible_staff" =>
          /\ complaints' = complaints
          /\ nextId' = nextId
          /\ (last.op = "eligible_staff" /\ last.cid = last'.cid) =>
                 /\ last'.result = last.result
                 /\ last'.data = last.data]_vars

\* the eligible staff of a complaint were returned, with a user left out
\* because the complaint names it
C25_Witness ==
    /\ last.op = "eligible_staff"
    /\ last.result = "Ok"
    /\ last.data.excluded_count > 0
    /\ last.data.staff # {}

(***************************************************************************)
(* Support.  Every request runs from its read to its commit with no other  *)
(* request in between.                                                     *)
(***************************************************************************)
\* the support requests stop at this count (the code has no limit)
MaxSupportCount == 4

\* the users that send support requests
Supporters == {"stu", "ap", "adm"}

SupportComplaint(actor, cid) ==
    LET out == support_complaint(actor, cid)
    IN  /\ cid \in DOMAIN complaints => complaints[cid].support_count < MaxSupportCount
        /\ complaints' = IF cid \in DOMAIN complaints
                         THEN [complaints EXCEPT ![cid] = Stored(cid, out)]
                         ELSE complaints
        /\ last' = [Response("support", cid, {}, out) EXCEPT
                       !.data = IF out.commit
                                THEN [support_count |-> out.obj.row.support_count,
                                      user_supported |->
                                          actor \in Range(out.obj.row.supported_by)]
                                ELSE None]
        /\ UNCHANGED <<nextId, sessions, startup>>

SupportNext ==
    \/ \E cr \in CreateRequests : CreateComplaint(cr[1], cr[2], cr[3])
    \/ \E actor \in Supporters, cid \in ComplaintIds : SupportComplaint(actor, cid)

SpecSupport == Init /\ [][SupportNext]_vars

\* C26: every complaint's support count is the number of ids in supported_by,
\* supported_by holds no id twice, and the count is not negative
C26_SupportCountMatches ==
    \A cid \in DOMAIN complaints :
        LET c == complaints[cid]
        IN  /\ c.support_count = Len(c.supported_by)
            /\ \A i, j \in DOMAIN c.supported_by :
                   c.supported_by[i] = c.supported_by[j] => i = j
            /\ c.support_count >= 0

(***************************************************************************)
(* Concurrent requests.  A handler awaits the database twice: at           *)
(* session.get, which loads the row into the request's own session, and at *)
(* session.commit, which sends the UPDATE.  No handler locks the row       *)
(* (there is no with_for_update and no version column), so another         *)
(* request can read or commit between the two.  A request in flight is a   *)
(* session that holds the row as loaded (base) and the object as the       *)
(* handler left it before the commit.  The UPDATE of the commit carries    *)
(* the attributes whose value differs from the loaded one.  A session is   *)
(* used for one request; SessionIds are the requests of a run.             *)
(***************************************************************************)
MaxSessions == 2

\* the session of a request that has been answered
Closed == [op |-> "closed"]

SessionIds == 1..MaxSessions

\* session.commit() of an object loaded as base, onto the row as it is now
FlushChanged(stored, base, obj) ==
    [f \in DOMAIN stored |->
        IF f \in JsonColumns
        THEN IF f \in obj.rebound /\ obj.row[f] # base[f] THEN obj.row[f] ELSE stored[f]
        ELSE IF obj.row[f] # base[f] THEN obj.row[f] ELSE stored[f]]

\* the handler runs from session.get to the await of session.commit, or to
\* the response it returns before that
OpenSession(sid, op, actor, cid, req, out) ==
    /\ sid \notin DOMAIN sessions
    /\ IF out.commit
       THEN /\ sessions' = (sid :> [op |-> op, actor |-> actor, cid |-> cid, req |-> req,
                                    base |-> complaints[cid], obj |-> out.obj,
                                    code |-> out.code, message |-> out.message])
                               @@ sessions
            /\ UNCHANGED last
       ELSE /\ sessions' = (sid :> Closed) @@ sessions
            /\ last' = Response(op, cid, {f \in DOMAIN req : req[f] # None}, out)
    /\ UNCHANGED <<complaints, nextId, startup>>

BeginUpdate(sid, actor, cid, req) ==
    OpenSession(sid, "update", actor, cid, req, update_complaint(actor, cid, req))

BeginSupport(sid, actor, cid) ==
    /\ cid \in DOMAIN complaints => complaints[cid].support_count < MaxSupportCount
    /\ OpenSession(sid, "support", actor, cid, NoFields, support_complaint(actor, cid))

\* the commit of a request in flight, and its response
CommitSession(sid) ==
    /\ sid \in DOMAIN sessions
    /\ sessions[sid] # Closed
    /\ LET s == sessions[sid]
       IN  /\ s.cid \in DOMAIN complaints
           /\ complaints' = [complaints EXCEPT
                                ![s.cid] = FlushChanged(@, s.base, s.obj)]
           /\ last' = [op |-> s.op, cid |-> s.cid,
                       fields |-> {f \in DOMAIN s.req : s.req[f] # None},
                       result |-> "Ok", code |-> s.code, message |-> s.message,
                       data |-> None]
    /\ sessions' = [sessions EXCEPT ![sid] = Closed]
    /\ UNCHANGED <<nextId, startup>>

\* the complaints and the requests that race for them
RaceCreateRequests == {"stu"} \X Texts \X {"Lab", "Other"}

RaceUpdates ==
    {<<"adm", SetStatusRequest(RESOLVED)>>,
     <<"pri", SetStatusRequest(REJECTED)>>,
     <<"adm", [NoFields EXCEPT !.assigned_to = "lab"]>>,
     <<"adm", [NoFields EXCEPT !.response_text = "reply"]>>,
     <<"hod", SetStatusRequest(RESOLVED)>>}

RaceNext ==
    \/ \E cr \in RaceCreateRequests : CreateComplaint(cr[1], cr[2], cr[3])
    \/ \E sid \in SessionIds, ur \in RaceUpdates, cid \in ComplaintIds :
           BeginUpdate(sid, ur[1], cid, ur[2])
    \/ \E sid \in SessionIds, actor \in Supporters, cid \in ComplaintIds :
           BeginSupport(sid, actor, cid)
    \/ \E sid \in SessionIds : CommitSession(sid)

SpecRace == Init /\ [][RaceNext]_vars

\* the request of a session, run from its read to its commit on the row as
\* it is now
AtomicOutcome(s) ==
    IF s.op = "support"
    THEN support_complaint(s.actor, s.cid)
    ELSE update_complaint(s.actor, s.cid, s.req)

\* C27: every request that commits behaves as one atomic read-modify-write:
\* the row after its commit is the row its handler leaves when it reads the
\* row as it is at the commit, whatever other requests read or committed
\* since the request's own read; no committed update is lost
C27_AtomicReadModifyWrite ==
    [][\A sid \in DOMAIN sessions :
          (sessions[sid] # Closed /\ sessions'[sid] = Closed) =>
              complaints'[sessions[sid].cid]
                  = Stored(sessions[sid].cid, AtomicOutcome(sessions[sid]))]_vars

(***************************************************************************)
(* Properties of creation and of the timeline, in the specification Spec.  *)
(***************************************************************************)
\* C28: a complaint is created by a Student only, once per request and in
\* status Submitted: the row a create request has just stored is new, is
\* Submitted and belongs to a user of role Student, and every complaint of
\* the table was filed by a Student
C28_OnlyStudentsCreate ==
    /\ \A cid \in DOMAIN complaints : Users[complaints[cid].student_id].role = STUDENT
    /\ (last.op = "create" /\ last.result = "Ok") =>
           /\ last.cid \in DOMAIN complaints
           /\ last.cid = nextId - 1
           /\ complaints[last.cid].status = SUBMITTED

\* the requests that assign and carry no status
AssignOnlyRequests == {req \in AllRequests : req.assigned_to # None /\ req.status = None}

\* the requests that set the status and do not assign
StatusOnlyRequests == {req \in AllRequests : req.status # None /\ req.assigned_to = None}

\* C29: a successful assignment appends exactly one timeline entry, by the
\* acting user, whose action is "Assigned to X" when the complaint had no
\* assignee before the request and "Reassigned to X" when it had one; the
\* entry is in the timeline the handler holds at its commit and in the row
\* the request leaves in the table
C29_AssignTimelineEntry ==
    \A cid \in DOMAIN complaints, actor \in UserIds, req \in AssignOnlyRequests :
        LET out == update_complaint(actor, cid, req)
            before == complaints[cid]
            entry == [action |-> IF before.assigned_to = None
                                 THEN <<"Assigned to ", Users[req.assigned_to].name>>
                                 ELSE <<"Reassigned to ", Users[req.assigned_to].name>>,
                      by |-> Users[actor].name]
        IN  out.result = "Ok" =>
                /\ out.obj.row.timeline = Append(before.timeline, entry)
                /\ Stored(cid, out).timeline = Append(before.timeline, entry)

\* C30: a successful request that sets the status and does not assign leaves
\* the complaint in the requested status, with exactly one more timeline
\* entry, whose status is the new status and whose updated_by is the acting
\* user's name
C30_StatusTimelineEntry ==
    \A cid \in DOMAIN complaints, actor \in UserIds, req \in StatusOnlyRequests :
        LET out == update_complaint(actor, cid, req)
            before == complaints[cid]
            after == Stored(cid, out)
        IN  out.result = "Ok" =>
                /\ after.status = req.status
                /\ Len(after.timeline) = Len(before.timeline) + 1
                /\ after.timeline[Len(after.timeline)].status = req.status
                /\ "updated_by" \in DOMAIN after.timeline[Len(after.timeline)]
                /\ after.timeline[Len(after.timeline)].updated_by = Users[actor].name

\* the timeline entries of a row whose status is Submitted
SubmittedEntries(row) ==
    {i \in DOMAIN row.timeline :
        "status" \in DOMAIN row.timeline[i] /\ row.timeline[i].status = SUBMITTED}

\* the row is as create_complaint builds it for the pair (id, name) that
\* auto-assignment returned
CreatedFor(row, handler) ==
    /\ Len(row.timeline) >= 1
    /\ row.timeline[1] = [status |-> SUBMITTED, note |-> <<"Complaint submitted">>]
    /\ SubmittedEntries(row) = {1}
    /\ IF handler = NoHandler
       THEN /\ Len(row.timeline) = 1
            /\ row.assigned_to = None
            /\ row.assigned_to_name = None
            /\ row.assigned_at = None
       ELSE /\ Len(row.timeline) = 2
            /\ row.timeline[2] = [status |-> "auto_assigned",
                                  note |-> <<"Auto-assigned to ", handler.name>>]
            /\ row.assigned_to = handler.id
            /\ row.assigned_to_name = handler.name
            /\ row.assigned_at # None

\* C31: the timeline of a new complaint starts with exactly one Submitted
\* entry; it has an "auto_assigned" entry "Auto-assigned to <name>" exactly
\* when auto-assignment returned a handler, and then assigned_to,
\* assigned_to_name and assigned_at are set to that handler, and otherwise all
\* three are unset
C31_CreationTimeline ==
    /\ \A actor \in UserIds, text \in Texts, category \in RoutedCategories \cup {None} :
          LET handlers == auto_assign_complaint(category, Users[actor].department)
              rows == create_complaint(actor, text, category)
          IN  /\ \A row \in rows : \E handler \in handlers : CreatedFor(row, handler)
              /\ \A handler \in handlers : \E row \in rows : CreatedFor(row, handler)
    /\ (last.op = "create" /\ last.result = "Ok") =>
          LET c == complaints[last.cid]
          IN  CreatedFor(c, IF c.assigned_to = None THEN NoHandler
                            ELSE [id |-> c.assigned_to, name |-> Users[c.assigned_to].name])

\* a complaint was just created with a handler: two timeline entries
C31_Witness ==
    /\ last.op = "create" /\ last.result = "Ok" /\ last.cid \in DOMAIN complaints
    /\ complaints[last.cid].assigned_to # None
    /\ Len(complaints[last.cid].timeline) = 2

(***************************************************************************)
(* Status changes on their own: complaints are filed, and users of the     *)
(* roles that update_complaint tells apart ask for every status.           *)
(***************************************************************************)
StatusActors == {"adm", "lab", "pri", "hod", "stu"}

StatusNext ==
    \/ \E cr \in CreateRequests : CreateComplaint(cr[1], cr[2], cr[3])
    \/ \E actor \in StatusActors, cid \in ComplaintIds, status \in StatusInputs :
           UpdateComplaint(actor, cid, SetStatusRequest(status))

SpecStatus == Init /\ [][StatusNext]_vars

\* C32: from every status of a complaint, every Admin, Staff and Principal
\* user sets each of the five statuses with one request
C32_AnyStatusInOneStep ==
    \A cid \in DOMAIN complaints, actor \in UserIds, status \in ComplaintStatus :
        Users[actor].role \in {ADMIN, STAFF, PRINCIPAL} =>
            LET out == update_complaint(actor, cid, SetStatusRequest(status))
            IN  /\ out.result = "Ok"
                /\ Stored(cid, out).status = status

\* a request has just moved a complaint to Rejected, from where every status
\* can be set again
C32_Witness ==
    /\ last.op = "update" /\ last.result = "Ok" /\ last.cid \in DOMAIN complaints
    /\ complaints[last.cid].status = REJECTED

(***************************************************************************)
(* get_eligible_staff_for_assignment on lists of users: each step is one   *)
(* call, its arguments and its two result lists are recorded in last.data. *)
(***************************************************************************)
\* the longest list of candidates of a call
MaxCandidates == 3

\* the users a list of candidates is made of (a user may occur twice)
Candidates == {"hod", "ap", "lab", "lab2"}

CandidateLists == UNION {[1..n -> Candidates] : n \in 0..MaxCandidates}

\* the loop of get_eligible_staff_for_assignment with the mentioned users put
\* at the front of excluded instead of appended
RECURSIVE FilterLoop_Prepend(_, _, _, _)
FilterLoop_Prepend(complaint, all_staff, eligible, excluded) ==
    IF all_staff = <<>> THEN <<eligible, excluded>>
    ELSE LET staff == Head(all_staff)
         IN  IF IsMentioned(staff.name, complaint.title, complaint.description)
             THEN FilterLoop_Prepend(complaint, Tail(all_staff), eligible,
                                     <<staff>> \o excluded)
             ELSE FilterLoop_Prepend(complaint, Tail(all_staff),
                                     Append(eligible, staff), excluded)

\* the loop  for staff in all_staff  with the two lists built so far
RECURSIVE FilterLoop(_, _, _, _)
FilterLoop(complaint, all_staff, eligible, excluded) ==
    IF all_staff = <<>> THEN <<eligible, excluded>>
    ELSE LET staff == Head(all_staff)
         IN  IF IsMentioned(staff.name, complaint.title, complaint.description)
             THEN FilterLoop(complaint, Tail(all_staff), eligible,
                             Append(excluded, staff))
             ELSE FilterLoop(complaint, Tail(all_staff),
                             Append(eligible, staff), excluded)

get_eligible_staff_for_assignment(complaint, all_staff) ==
    FilterLoop(complaint, all_staff, <<>>, <<>>)

\* one call of get_eligible_staff_for_assignment
FilterEligible(complaint, all_staff) ==
    /\ last' = [op |-> "get_eligible_staff_for_assignment", cid |-> 0, fields |-> {},
                result |-> "Ok", code |-> 0, message |-> None,
                data |-> [complaint |-> complaint, all_staff |-> all_staff,
                          eligible |-> get_eligible_staff_for_assignment(
                                           complaint, all_staff)[1],
                          excluded |-> get_eligible_staff_for_assignment(
                                           complaint, all_staff)[2]]]
    /\ UNCHANGED <<complaints, nextId, sessions, startup>>

FilterNext ==
    \E text \in Texts, ids \in CandidateLists :
        FilterEligible([title |-> text[1], description |-> text[2]],
                       [i \in DOMAIN ids |-> Users[ids[i]]])

SpecFilter == Init /\ [][FilterNext]_vars

\* the candidates of a call that the complaint of the call mentions
MentionedIn(d, staff) ==
    IsMentioned(staff.name, d.complaint.title, d.complaint.description)

\* C33: the two lists a call returns split the candidates: excluded holds the
\* mentioned candidates and eligible the others, each in the order of the
\* input, so every position of the input is in exactly one of the two
C33_FilterPartitions ==
    last.op = "get_eligible_staff_for_assignment" =>
        LET d == last.data
            Mentioned(staff) == MentionedIn(d, staff)
            Unmentioned(staff) == ~MentionedIn(d, staff)
        IN  /\ d.excluded = SelectSeq(d.all_staff, Mentioned)
            /\ d.eligible = SelectSeq(d.all_staff, Unmentioned)
            /\ Len(d.eligible) + Len(d.excluded) = Len(d.all_staff)
            /\ \A i \in DOMAIN d.eligible : ~MentionedIn(d, d.eligible[i])
            /\ \A i \in DOMAIN d.excluded : MentionedIn(d, d.excluded[i])

\* a call with two different mentioned candidates around one that is not
C33_Witness ==
    /\ last.op = "get_eligible_staff_for_assignment"
    /\ Len(last.data.all_staff) = 3
    /\ Len(last.data.excluded) = 2
    /\ last.data.excluded[1] # last.data.excluded[2]
    /\ last.data.eligible = <<last.data.all_staff[2]>>

\* C34: the status operation lets an HOD, Principal or Admin who is not
\* mentioned in the complaint complete the status change, and answers every
\* user of another role with a permission error (403)
C34_StatusOperationRoles ==
    \A actor \in UserIds, cid \in DOMAIN complaints, status \in ComplaintStatus :
        LET c == complaints[cid]
            user == Users[actor]
            out == update_complaint_status(actor, cid, status, "remarks")
        IN  IF user.role \in {HOD, PRINCIPAL, ADMIN}
            THEN ~IsMentioned(user.name, c.title, c.description)
                    => /\ out.result = "Ok"
                       /\ Stored(cid, out).status = status
            ELSE /\ out.result = "PermissionDenied"
                 /\ out.code = 403

\* C35: every user the eligible-staff query lists for an actor and a complaint
\* is accepted as the assignee when the same actor asks next to assign the
\* complaint to that user
C35_ListedStaffAssignable ==
    \A actor \in UserIds, cid \in DOMAIN complaints :
        LET listed == get_eligible_staff(actor, cid)
        IN  listed.result = "Ok" =>
                \A staff_id \in listed.data.staff :
                    LET out == update_complaint(actor, cid,
                                   [NoFields EXCEPT !.assigned_to = staff_id])
                    IN  /\ out.result = "Ok"
                        /\ Stored(cid, out).assigned_to = staff_id

\* C36: the handler of every complaint is a user of role Staff or HOD:
\* no creation and no assignment makes a Student, a Principal or an Admin the
\* assignee
C36_AssigneeIsStaffOrHod ==
    \A cid \in DOMAIN complaints :
        complaints[cid].assigned_to # None =>
            /\ complaints[cid].assigned_to \in UserIds
            /\ Users[complaints[cid].assigned_to].role \in {STAFF, HOD}

\* the roles update_complaint lets past its first check
UpdaterRoles == {ADMIN, STAFF, HOD, PRINCIPAL}

\* C37: an update request of a user who is no Admin, Staff, HOD or Principal
\* is answered with a permission error (403) whatever it carries and whether
\* or not the complaint exists, before any complaint is loaded, and the table
\* stays as it was
C37_StudentUpdateRejected ==
    \A actor \in UserIds, cid \in ComplaintIds, req \in AllRequests :
        Users[actor].role \notin UpdaterRoles =>
            LET out == update_complaint(actor, cid, req)
            IN  /\ out.result = "PermissionDenied"
                /\ out.code = 403
                /\ ~out.commit
                /\ ~out.obj.loaded
                /\ cid \in DOMAIN complaints => Stored(cid, out) = complaints[cid]

\* a student's update request for a complaint that does not exist has been
\* answered with the permission error (every other role gets "not found")
C37_Witness ==
    /\ last.op = "update" /\ last.result = "PermissionDenied" /\ last.code = 403
    /\ last.cid \notin DOMAIN complaints

\* the most lookups a chain of escalations is followed for
MaxEscalations == 6

\* the results of get_escalation_authority applied to a role, then to its
\* result, and so on until a lookup returns None
RECURSIVE EscalationChain(_, _)
EscalationChain(blocked_user_role, n) ==
    IF n = 0 THEN <<>>
    ELSE LET authority == get_escalation_authority(blocked_user_role)
         IN  IF authority = None THEN <<None>>
             ELSE <<authority>> \o EscalationChain(authority, n - 1)

\* C38 as the spec states it: repeated escalation returns None within three
\* lookups
C38_NoneWithinThree ==
    last.op = "get_escalation_authority" =>
        LET chain == EscalationChain(last.data.blocked_user_role, MaxEscalations)
        IN  /\ chain[Len(chain)] = None
            /\ Len(chain) <= 3

\* C38: repeated escalation ends: from every role a lookup returns None after
\* at most three escalations to a next role, that is within four lookups; no
\* role occurs twice on the way; and from Staff, HOD and Principal the last
\* role before None is the Admin
C38_EscalationTerminates ==
    last.op = "get_escalation_authority" =>
        LET role == last.data.blocked_user_role
            chain == EscalationChain(role, MaxEscalations)
            visited == <<role>> \o chain
        IN  /\ chain[1] = last.data.authority
            /\ chain[Len(chain)] = None
            /\ Len(chain) <= 4
            /\ \A i, j \in DOMAIN visited : i # j => visited[i] # visited[j]
            /\ role \in {STAFF, HOD, PRINCIPAL} =>
                   /\ Len(chain) >= 2
                   /\ chain[Len(chain) - 1] = ADMIN

\* the longest chain: Staff, HOD, Principal, Admin, None
C38_Witness ==
    /\ last.op = "get_escalation_authority"
    /\ last.data.blocked_user_role = STAFF
    /\ EscalationChain(STAFF, MaxEscalations) = <<HOD, PRINCIPAL, ADMIN, None>>

\* C39: support is a toggle.  A request of a user who is not in supported_by
\* adds the user and raises support_count by one; a request of a user who is
\* in it removes the user and lowers the count by one; and after a request,
\* the same user's next request leaves the complaint as it was before the
\* first, in every field
C39_SupportToggles ==
    /\ [](\A cid \in DOMAIN complaints, actor \in Supporters :
             LET c == complaints[cid]
                 after == Stored(cid, support_complaint(actor, cid))
             IN  IF actor \in Range(c.supported_by)
                 THEN /\ actor \notin Range(after.supported_by)
                      /\ after.support_count = c.support_count - 1
                 ELSE /\ actor \in Range(after.supported_by)
                      /\ after.support_count = c.support_count + 1)
    /\ [][\A cid \in DOMAIN complaints, actor \in Supporters :
             SupportComplaint(actor, cid) =>
                 Stored(cid, support_complaint(actor, cid))' = complaints[cid]]_vars

(***************************************************************************)
(* startup (server.py 66-130): up to max_retries attempts to connect and   *)
(* create the tables, a sleep after each failed attempt but the last, and  *)
(* after a successful attempt the two column checks, each in a try of its  *)
(* own.  The database is one whose tables exist, with or without the two   *)
(* columns (create_all leaves existing tables as they are; on an empty     *)
(* database it creates them with both columns).                            *)
(***************************************************************************)
max_retries == 5

retry_delay == 2

\* wait_time without the doubling: retry_delay times the attempt
wait_time_Linear(attempt) ==
    IF retry_delay * attempt < 32 THEN retry_delay * attempt ELSE 32

\* min(retry_delay * (2 ** (attempt - 1)), 32)
wait_time(attempt) ==
    IF retry_delay * (2 ^ (attempt - 1)) < 32 THEN retry_delay * (2 ^ (attempt - 1))
    ELSE 32

MigratedColumns == {"staff_role", "student_department"}

StartupInit ==
    /\ complaints = <<>>
    /\ nextId = 1
    /\ last = [op |-> "none", cid |-> 0, fields |-> {},
               result |-> None, code |-> 0, message |-> None, data |-> None]
    /\ sessions = <<>>
    /\ \E columns \in SUBSET MigratedColumns :
           startup = [pc |-> "connect", attempt |-> 1, waits |-> <<>>,
                      warnings |-> {}, columns |-> columns]

\* get_engine, engine.begin and create_all of an attempt go through
ConnectSucceeds ==
    /\ startup.pc = "connect"
    /\ startup' = [startup EXCEPT !.pc = "staff_role"]
    /\ UNCHANGED <<complaints, nextId, last, sessions>>

\* one of them raises: the outer except
ConnectFails ==
    /\ startup.pc = "connect"
    /\ startup' = [startup EXCEPT
                      !.pc = IF startup.attempt < max_retries THEN "sleep" ELSE "raised"]
    /\ UNCHANGED <<complaints, nextId, last, sessions>>

\* asyncio.sleep(wait_time) returns and the loop goes to the next attempt
Sleep ==
    /\ startup.pc = "sleep"
    /\ startup' = [startup EXCEPT !.pc = "connect",
                                  !.waits = Append(@, wait_time(startup.attempt)),
                                  !.attempt = @ + 1]
    /\ UNCHANGED <<complaints, nextId, last, sessions>>

\* the try block of one column: the column is there afterwards when the block
\* goes through; when it raises, the except logs a warning, and the column has
\* been added or not (ALTER TABLE is not rolled back)
MigrationCheck(column, then, raises, added) ==
    /\ startup.pc = column
    /\ startup' = [startup EXCEPT
                      !.pc = then,
                      !.warnings = IF raises THEN @ \cup {column} ELSE @,
                      !.columns = IF ~raises \/ added THEN @ \cup {column} ELSE @]
    /\ UNCHANGED <<complaints, nextId, last, sessions>>

StartupNext ==
    \/ ConnectSucceeds
    \/ ConnectFails
    \/ Sleep
    \/ \E raises, added \in BOOLEAN :
           MigrationCheck("staff_role", "student_department", raises, added)
    \/ \E raises, added \in BOOLEAN :
           MigrationCheck("student_department", "returned", raises, added)

\* the event loop runs the handler on: a connection attempt ends (it goes
\* through or raises) and a sleep returns
SpecStartup == StartupInit /\ [][StartupNext]_vars /\ WF_vars(StartupNext)

\* C40: startup ends, by returning or by raising; it makes at most
\* max_retries attempts and has slept 2, 4, 8 and 16 seconds (never more than
\* 32) after the failed attempts before the current one; it raises only at
\* the fifth failed attempt; after the first attempt that goes through it
\* makes no further attempt and returns; and a column check that fails
\* causes neither a retry nor a failure of startup
C40_StartupTerminates ==
    /\ [](/\ startup.attempt \in 1..max_retries
          /\ startup.waits = SubSeq(<<2, 4, 8, 16>>, 1, startup.attempt - 1)
          /\ \A i \in DOMAIN startup.waits : startup.waits[i] <= 32
          /\ startup.pc = "raised" => startup.attempt = max_retries)
    /\ [][/\ startup.pc \in MigratedColumns =>
                /\ startup'.attempt = startup.attempt
                /\ startup'.pc \in {"student_department", "returned"}
          /\ startup.pc = "returned" => startup' = startup
          /\ startup'.pc = "raised" =>
                startup.pc = "connect" /\ startup.attempt = max_retries]_vars
    /\ <>(startup.pc \in {"returned", "raised"})

\* startup has returned at the fifth attempt, after four sleeps, although both
\* column checks failed
C40_Witness ==
    /\ startup.pc = "returned"
    /\ startup.attempt = max_retries
    /\ startup.waits = <<2, 4, 8, 16>>
    /\ startup.warnings = MigratedColumns

=============================================================================
